---- MODULE Spec2Model ----
(***************************************************************************)
(* Model of lingvo/core/ops/input_common.h: the InputOp kernel.  The       *)
(* constructor reads the attributes, validates them, creates the record    *)
(* processor, one BasicRecordYielder per file pattern, an optional         *)
(* WeightedMixRecordYielder and the RecordBatcher; Compute pulls one batch *)
(* and copies it to the outputs; the destructor deletes the batcher.       *)
(***************************************************************************)
EXTENDS Integers, Sequences, FiniteSets, TLC

\* ---------------------------------------------------------------- bounds
MaxPatternLen == 3
MaxWeights == 3
MaxBuckets == 2
MaxBatchLen == 3
MaxOutputs == 3
MaxCalls == 2

\* ------------------------------------------------------ program constants
\* std::numeric_limits<int32>::max()
Int32Max == 2147483647

\* the modulus of the seed derivation, std::numeric_limits<int32>::max() - 1
SeedModulus == Int32Max - 1

\* ------------------------------------------------------------ input sets
\* characters of file_pattern: an ordinary character and the separator
Alphabet == {"a", ","}

WeightValues == {1, 2}

BoundValues == {10, 50}

LimitValues == {4}

Tensors == {"t1", "t2"}

BufferSizes == {10000}

Parallelisms == {16}

FlushValues == {0}

ThreadCounts == {2}

RECURSIVE SeqsUpTo(_, _)
SeqsUpTo(S, n) ==
  IF n = 0 THEN {<<>>}
  ELSE LET shorter == SeqsUpTo(S, n - 1)
       IN  shorter \cup {Append(s, x) : s \in {t \in shorter : Len(t) = n - 1}, x \in S}

\* Base seeds: zero, small seeds of both signs, and seeds for which
\* file_random_seed + i reaches a multiple of SeedModulus for some source.
SeedValues ==
  {0, 1, -1, 7,
   SeedModulus - (MaxWeights - 1),
   -SeedModulus, -SeedModulus - 1}

\* ------------------------------------------------------------------ state
VARIABLES
  pc,                   \* "attrs" | "constructed" | "destroyed"
  file_pattern,         \* attribute: sequence of characters
  input_source_weights, \* attribute: sequence of weights
  file_random_seed,     \* attribute: int64
  file_buffer_size,     \* attribute
  file_parallelism,     \* attribute
  bucket_upper_bound,   \* attribute: sequence of int64
  bucket_batch_limit,   \* attribute: sequence of int64
  flush_every_n,        \* attribute
  num_threads,          \* attribute
  status,               \* the construction context's status
  processor_,           \* pointer member
  batcher_,             \* pointer member
  yielders,             \* the constructor's vector of yielder pointers
  yielder,              \* the constructor's composed stream pointer
  heap,                 \* allocated objects: pointer -> contents
  getnext_calls,        \* number of RecordBatcher::GetNext calls made
  batch,                \* the batch of the last Compute
  num_outputs,          \* ctx->num_outputs() of the last Compute
  outputs,              \* output slots of the last Compute's context
  compute_status        \* status of the last Compute's context

attrs == <<file_pattern, input_source_weights, file_random_seed,
           file_buffer_size, file_parallelism, bucket_upper_bound,
           bucket_batch_limit, flush_every_n, num_threads>>

members == <<status, processor_, batcher_, yielders, yielder, heap>>

computed == <<getnext_calls, batch, num_outputs, outputs, compute_status>>

vars == <<pc, attrs, members, computed>>

\* ---------------------------------------------------------------- values
Ptr(kind, idx) == [kind |-> kind, idx |-> idx]

nullptr == Ptr("nullptr", 0)

ProcessorPtr == Ptr("processor", 0)

YielderPtr(i) == Ptr("yielder", i)

MixerPtr == Ptr("mixer", 0)

BatcherPtr == Ptr("batcher", 0)

OkStatus == [code |-> "OK", msg |-> ""]

NotSortedError ==
  [code |-> "InvalidArgument", msg |-> "Bucket_upper_bound is not sorted"]

WeightCountError ==
  [code |-> "InvalidArgument",
   msg |-> "There should be exactly one input_source_weight per coma-separated value in file_pattern."]

BucketLengthError ==
  [code |-> "ConfigurationError",
   msg |-> "bucket_upper_bound and bucket_batch_limit differ in length"]

UnexpectedBatchError == [code |-> "Internal", msg |-> "Unexpected batch: "]

Unset == "unset"

EmptyHeap == [p \in {} |-> nullptr]

\* ------------------------------------------------------- pure functions
\* is_sorted with the comparison turned strict: equal neighbours rejected
IsSortedStrictly(s) == \A k \in 1..(Len(s) - 1) : s[k] < s[k + 1]

\* std::is_sorted: no element is smaller than its predecessor
IsSorted(s) == \A k \in 1..(Len(s) - 1) : ~(s[k + 1] < s[k])

\* str_util::Split(text, delim): every delimiter ends a token, the end of the
\* text ends the last one, empty tokens are kept, an empty text has no token
RECURSIVE SplitFrom(_, _, _, _)
SplitFrom(text, delim, i, token_start) ==
  IF i > Len(text) + 1 THEN <<>>
  ELSE IF i = Len(text) + 1 \/ text[i] = delim
       THEN <<SubSeq(text, token_start, i - 1)>> \o SplitFrom(text, delim, i + 1, i + 1)
       ELSE SplitFrom(text, delim, i + 1, token_start)

Split(text, delim) ==
  IF text = <<>> THEN <<>> ELSE SplitFrom(text, delim, 1, 1)

\* the C++ operator % on int64: the quotient truncates toward zero, so the
\* remainder has the sign of the dividend
CppRem(a, m) == IF a >= 0 THEN a % m ELSE -((-a) % m)

\* file_patterns with the legacy branch lost: the pattern is always split
FilePatternsAlwaysSplit(pattern, weights) == Split(pattern, ",")

\* file_patterns as the constructor fills it
FilePatterns(pattern, weights) ==
  IF weights = <<>> THEN <<pattern>> ELSE Split(pattern, ",")

\* the count check with a weight list allowed to be shorter than the patterns
CountsMatchAtLeast(file_patterns, weights) == Len(file_patterns) >= Len(weights)

\* the count check with too few patterns let through
CountsMatchAtMost(file_patterns, weights) == Len(file_patterns) <= Len(weights)

\* the OP_REQUIRES condition on the pattern and weight counts
CountsMatch(file_patterns, weights) == Len(file_patterns) = Len(weights)

\* the seed derivation without the step that replaces 0 by 1
YieldSeedKeepsZero(seed, i) ==
  IF seed = 0 THEN 0 ELSE CppRem(seed + i, SeedModulus)

\* yopts.seed of the yielder at index i (from 0)
YieldSeed(seed, i) ==
  IF seed = 0 THEN 0
  ELSE LET r == CppRem(seed + i, SeedModulus)
       IN  IF r = 0 THEN r + 1 ELSE r

\* BasicRecordYielder::Options of the yielder at index i (from 0)
Yopts(file_patterns, i, seed, bufsize, parallelism) ==
  [file_pattern |-> file_patterns[i + 1],
   seed |-> YieldSeed(seed, i),
   bufsize |-> bufsize,
   parallelism |-> parallelism]

\* the vector yielders after the loop
NewYielders(file_patterns) == [k \in 1..Len(file_patterns) |-> YielderPtr(k - 1)]

\* the mixer test off by one: a single stream is wrapped too
NeedsMixerFromOne(ys) == Len(ys) >= 1

\* whether the streams are wrapped into a WeightedMixRecordYielder
NeedsMixer(ys) == Len(ys) > 1

\* the arguments of WeightedMixRecordYielder::New
MixerArgs(seed, ys, weights) ==
  [seed |-> seed, yielders |-> ys, weights |-> weights]

\* yielders.front(): the first element; on an empty vector the behaviour is
\* undefined and any pointer value may come out
Front(ys) ==
  IF ys = <<>> THEN {nullptr, Ptr("dangling", 0)} ELSE {Head(ys)}

\* the values the local variable yielder may hold after the composition
Composed(ys) == IF NeedsMixer(ys) THEN {MixerPtr} ELSE Front(ys)

\* RecordBatcher::Options
Bopts(upper, limit, flush, threads) ==
  [bucket_upper_bound |-> upper,
   bucket_batch_limit |-> limit,
   flush_every_n |-> flush,
   num_threads |-> threads]

\* RecordBatcher's constructor accepts the options (its code is in
\* record_batcher.cc; the specification requires equal lengths)
BatcherAccepts(bopts) ==
  Len(bopts.bucket_upper_bound) = Len(bopts.bucket_batch_limit)

\* what deleting a RecordBatcher releases: itself, its processor, its stream
\* and, through a mixer, the mixed yielders
ReleasedBy(h, b) ==
  LET y == h[b].yielder
  IN  {b, h[b].processor, y}
        \cup (IF y.kind = "mixer" THEN {h[y].yielders[k] : k \in DOMAIN h[y].yielders}
              ELSE {})

\* the arity check accepting a batch shorter than the outputs
ArityAtMost(b, n) == Len(b) <= n

\* the condition of Compute's OP_REQUIRES
ArityOk(b, n) == Len(b) = n

\* the output slots after Compute's loop over the batch
SetOutputs(b, n) ==
  [i \in 0..(n - 1) |-> IF i < Len(b) THEN b[i + 1] ELSE Unset]

NoOutputs(n) == [i \in 0..(n - 1) |-> Unset]

\* ---------------------------------------------------------------- Init
\* The kernel's attributes are given; nothing is constructed yet.
Init ==
  /\ pc = "attrs"
  /\ file_pattern \in SeqsUpTo(Alphabet, MaxPatternLen)
  /\ input_source_weights \in SeqsUpTo(WeightValues, MaxWeights)
  /\ file_random_seed \in SeedValues
  /\ file_buffer_size \in BufferSizes
  /\ file_parallelism \in Parallelisms
  /\ bucket_upper_bound \in SeqsUpTo(BoundValues, MaxBuckets)
  /\ bucket_batch_limit \in SeqsUpTo(LimitValues, MaxBuckets)
  /\ flush_every_n \in FlushValues
  /\ num_threads \in ThreadCounts
  /\ status = OkStatus
  /\ processor_ = nullptr
  /\ batcher_ = nullptr
  /\ yielders = <<>>
  /\ yielder = nullptr
  /\ heap = EmptyHeap
  /\ getnext_calls = 0
  /\ batch = <<>>
  /\ num_outputs = 0
  /\ outputs = NoOutputs(0)
  /\ compute_status = OkStatus

\* ------------------------------------------------------------- heap images
ProcessorObject == [class |-> "RecordProcessorClass"]

\* the heap once the processor, the yielders ys and, when needed, the mixer
\* exist
HeapOfStreams(file_patterns, ys) ==
  [p \in {ProcessorPtr} \cup {ys[k] : k \in DOMAIN ys}
         \cup (IF NeedsMixer(ys) THEN {MixerPtr} ELSE {}) |->
     IF p.kind = "processor" THEN ProcessorObject
     ELSE IF p.kind = "mixer"
          THEN MixerArgs(file_random_seed, ys, input_source_weights)
          ELSE Yopts(file_patterns, p.idx, file_random_seed,
                     file_buffer_size, file_parallelism)]

\* the heap with the batcher object added
HeapWithBatcher(h, bopts, y) ==
  [p \in DOMAIN h \cup {BatcherPtr} |->
     IF p = BatcherPtr
     THEN [opts |-> bopts, yielder |-> y, processor |-> ProcessorPtr]
     ELSE h[p]]

\* --------------------------------------------------------------- actions
\* InputOp::InputOp, from the first OP_REQUIRES to the end of the body
Construct ==
  /\ pc = "attrs"
  /\ pc' = "constructed"
  /\ UNCHANGED <<attrs, computed>>
  /\ IF ~IsSorted(bucket_upper_bound)
     THEN /\ status' = NotSortedError
          /\ UNCHANGED <<processor_, batcher_, yielders, yielder, heap>>
     ELSE LET file_patterns == FilePatterns(file_pattern, input_source_weights)
          IN  IF input_source_weights # <<>>
                 /\ ~CountsMatch(file_patterns, input_source_weights)
              THEN /\ status' = WeightCountError
                   /\ processor_' = ProcessorPtr
                   /\ heap' = [p \in {ProcessorPtr} |-> ProcessorObject]
                   /\ UNCHANGED <<batcher_, yielders, yielder>>
              ELSE LET ys == NewYielders(file_patterns)
                       streams == HeapOfStreams(file_patterns, ys)
                       bopts == Bopts(bucket_upper_bound, bucket_batch_limit,
                                      flush_every_n, num_threads)
                   IN  /\ processor_' = ProcessorPtr
                       /\ yielders' = ys
                       /\ yielder' \in Composed(ys)
                       /\ IF BatcherAccepts(bopts)
                          THEN /\ status' = OkStatus
                               /\ batcher_' = BatcherPtr
                               /\ heap' = HeapWithBatcher(streams, bopts, yielder')
                          ELSE /\ status' = BucketLengthError
                               /\ batcher_' = nullptr
                               /\ heap' = streams

\* InputOp::~InputOp: delete batcher_ (deleting nullptr does nothing)
Destroy ==
  /\ pc = "constructed"
  /\ pc' = "destroyed"
  /\ heap' = IF batcher_ = nullptr THEN heap
             ELSE [p \in DOMAIN heap \ ReleasedBy(heap, batcher_) |-> heap[p]]
  /\ UNCHANGED <<attrs, status, processor_, batcher_, yielders, yielder, computed>>

\* InputOp::Compute on a kernel whose construction succeeded; the batcher
\* hands out some batch, the context expects some number of outputs
Compute ==
  /\ pc = "constructed"
  /\ status = OkStatus
  /\ getnext_calls < MaxCalls
  /\ \E b \in SeqsUpTo(Tensors, MaxBatchLen), n \in 0..MaxOutputs :
       /\ getnext_calls' = getnext_calls + 1
       /\ batch' = b
       /\ num_outputs' = n
       /\ IF ArityOk(b, n)
          THEN /\ compute_status' = OkStatus
               /\ outputs' = SetOutputs(b, n)
          ELSE /\ compute_status' = UnexpectedBatchError
               /\ outputs' = NoOutputs(n)
  /\ UNCHANGED <<pc, attrs, members>>

\* ---------------------------------------------------------- specifications
\* construction and destruction over all attribute values
Next == Construct \/ Destroy

Spec == Init /\ [][Next]_vars

\* the life of one kernel with a fixed seed and bucket configuration:
\* construction, Compute calls, destruction
InitCompute ==
  /\ Init
  /\ file_random_seed = 7
  /\ IsSorted(bucket_upper_bound)
  /\ Len(bucket_upper_bound) = Len(bucket_batch_limit)
  /\ Len(file_pattern) <= 1

NextCompute == Construct \/ Compute \/ Destroy

SpecCompute == InitCompute /\ [][NextCompute]_vars

\* ------------------------------------------------- vocabulary of the claims
\* the options the yielder at position k (from 1) was created with
YielderAt(k) == heap[yielders[k]]

\* the yielders exist (between construction and destruction)
StreamsBuilt == pc = "constructed" /\ yielders # <<>>

\* pointers of one kind among the allocated objects
Allocated(kind) == {p \in DOMAIN heap : p.kind = kind}

\* number of ',' in the sequence of characters
Commas(text) == Cardinality({k \in DOMAIN text : text[k] = ","})

\* number of comma-separated values of a text; an empty text has none
ValueCount(text) == IF text = <<>> THEN 0 ELSE Commas(text) + 1

RECURSIVE Joined(_)
Joined(tokens) ==
  IF tokens = <<>> THEN <<>>
  ELSE IF Len(tokens) = 1 THEN tokens[1]
       ELSE tokens[1] \o <<",">> \o Joined(Tail(tokens))

\* the construction got past the bucket check and parsed the sources
ReachedSources == pc = "constructed" /\ status # NotSortedError

\* the construction got past both argument checks
ReachedComposition ==
  pc = "constructed" /\ status # NotSortedError /\ status # WeightCountError

\* ------------------------------------------------------------------ C1
\* C1 as stated: the seed of the yielder at index i is 0 for base seed 0 and
\* otherwise (file_random_seed + i) mod (INT32_MAX - 1), the mathematical
\* residue in 0 .. INT32_MAX - 2, with 1 in place of 0.
C1_SeedIsResidue ==
  StreamsBuilt =>
    \A k \in DOMAIN yielders :
      YielderAt(k).seed =
        IF file_random_seed = 0 THEN 0
        ELSE LET r == (file_random_seed + (k - 1)) % SeedModulus
             IN  IF r = 0 THEN 1 ELSE r

\* C1 amended: the seed of the yielder at index i is 0 for base seed 0;
\* otherwise, with x = file_random_seed + i, it is 1 when x is a multiple of
\* INT32_MAX - 1, the residue of x when x is positive, and the residue of x
\* minus (INT32_MAX - 1), a negative number, when x is negative (the C++
\* remainder has the sign of x).  It is 0 exactly for base seed 0.
C1_SeedIsCppRemainder ==
  StreamsBuilt =>
    \A k \in DOMAIN yielders :
      LET x == file_random_seed + (k - 1)
          v == YielderAt(k).seed
      IN  /\ (v = 0) <=> (file_random_seed = 0)
          /\ file_random_seed # 0 =>
               /\ x % SeedModulus = 0 => v = 1
               /\ x % SeedModulus # 0 /\ x > 0 => v = x % SeedModulus
               /\ x % SeedModulus # 0 /\ x < 0 => v = (x % SeedModulus) - SeedModulus

\* a pipeline with a negative base seed in which one yielder got a negative
\* seed and another the seed 1 in place of 0
C1_Witness ==
  /\ StreamsBuilt
  /\ file_random_seed < 0
  /\ \E j, k \in DOMAIN yielders :
       /\ YielderAt(j).seed < 0
       /\ file_random_seed + (k - 1) = -SeedModulus
       /\ YielderAt(k).seed = 1

\* ------------------------------------------------------------------ C2
\* C2 as stated: with a non-zero base seed, yielders at distinct indices get
\* distinct seeds.
C2_SeedsDistinct ==
  StreamsBuilt /\ file_random_seed # 0 =>
    \A j, k \in DOMAIN yielders :
      j # k => YielderAt(j).seed # YielderAt(k).seed

\* ------------------------------------------------------------------ C3
\* C3: with weights given and the sources parsed, the construction fails
\* with the weight-count InvalidArgument error exactly when the number of
\* comma-separated values differs from the number of weights; on that
\* failure no yielder, mixer or batcher exists; otherwise there is one
\* yielder per weight, the patterns of the yielders are the comma-free
\* pieces of file_pattern in order, and the mixer, when there is one, holds
\* yielder i and weight i at the same position.
C3_WeightCountCheck ==
  ReachedSources /\ input_source_weights # <<>> =>
    /\ (status = WeightCountError)
         <=> (ValueCount(file_pattern) # Len(input_source_weights))
    /\ status = WeightCountError =>
         /\ yielders = <<>> /\ yielder = nullptr /\ batcher_ = nullptr
         /\ Allocated("yielder") = {} /\ Allocated("mixer") = {}
         /\ Allocated("batcher") = {}
    /\ status # WeightCountError =>
         /\ Len(yielders) = Len(input_source_weights)
         /\ \A k \in DOMAIN yielders :
              /\ yielders[k] = YielderPtr(k - 1)
              /\ Commas(YielderAt(k).file_pattern) = 0
         /\ Joined([k \in DOMAIN yielders |-> YielderAt(k).file_pattern]) = file_pattern
         /\ \A m \in Allocated("mixer") :
              /\ heap[m].yielders = yielders
              /\ heap[m].weights = input_source_weights

\* two sources with different patterns and different weights under a mixer
C3_Witness ==
  /\ pc = "constructed" /\ status = OkStatus
  /\ Len(input_source_weights) = 2
  /\ input_source_weights[1] # input_source_weights[2]
  /\ Len(yielders) = 2
  /\ YielderAt(1).file_pattern # YielderAt(2).file_pattern
  /\ MixerPtr \in DOMAIN heap

\* ------------------------------------------------------------------ C4
\* C4: with no weights and the sources parsed, exactly one yielder exists,
\* it has index 0 and its pattern is the whole file_pattern, commas included.
C4_LegacySingleSource ==
  ReachedSources /\ input_source_weights = <<>> =>
    /\ yielders = <<YielderPtr(0)>>
    /\ Allocated("yielder") = {YielderPtr(0)}
    /\ YielderAt(1).file_pattern = file_pattern

\* a legacy pipeline whose single pattern contains a comma
C4_Witness ==
  /\ ReachedSources /\ input_source_weights = <<>>
  /\ Commas(file_pattern) > 0
  /\ Len(yielders) = 1
  /\ Commas(YielderAt(1).file_pattern) > 0

\* ------------------------------------------------------------------ C5
\* C5: the construction is rejected with the not-sorted InvalidArgument
\* error exactly when some bound is smaller than its predecessor (so never
\* for fewer than two bounds or for equal neighbours), and then no object
\* has been created.
C5_SortedCheck ==
  pc = "constructed" =>
    /\ (status = NotSortedError)
         <=> (\E k \in DOMAIN bucket_upper_bound :
                k > 1 /\ bucket_upper_bound[k] < bucket_upper_bound[k - 1])
    /\ status = NotSortedError =>
         /\ DOMAIN heap = {}
         /\ processor_ = nullptr /\ batcher_ = nullptr
         /\ yielders = <<>> /\ yielder = nullptr

\* a construction rejected for unsorted bounds
C5_Witness ==
  /\ pc = "constructed" /\ status = NotSortedError
  /\ Len(bucket_upper_bound) = 2
  /\ bucket_upper_bound[2] < bucket_upper_bound[1]

\* ------------------------------------------------------------------ C6
\* C6 as stated: when bucket_upper_bound and bucket_batch_limit differ in
\* length, the construction fails and no yielder or batcher was created.
C6_LengthCheckBeforeYielders ==
  pc = "constructed" /\ Len(bucket_upper_bound) # Len(bucket_batch_limit) =>
    /\ status # OkStatus
    /\ yielders = <<>>
    /\ Allocated("yielder") = {}
    /\ Allocated("batcher") = {}

\* ------------------------------------------------------------------ C7
\* C7: with one yielder the batcher is given that yielder and no mixer
\* exists; with several it is given the mixer, which holds all yielders in
\* order, the weights, and file_random_seed as its seed.
C7_Composition ==
  StreamsBuilt =>
    /\ Len(yielders) = 1 =>
         /\ yielder = yielders[1]
         /\ Allocated("mixer") = {}
    /\ Len(yielders) > 1 =>
         /\ yielder = MixerPtr
         /\ Allocated("mixer") = {MixerPtr}
         /\ heap[MixerPtr].yielders = yielders
         /\ heap[MixerPtr].weights = input_source_weights
         /\ heap[MixerPtr].seed = file_random_seed
    /\ batcher_ # nullptr => heap[batcher_].yielder = yielder

\* a batcher over a mixer whose seed differs from its first yielder's seed
C7_Witness ==
  /\ StreamsBuilt /\ batcher_ # nullptr
  /\ Len(yielders) > 1
  /\ heap[batcher_].yielder = MixerPtr
  /\ heap[MixerPtr].seed # YielderAt(1).seed

\* ------------------------------------------------------------------ C8
\* C8: a Compute call makes exactly one GetNext call; it fails with the
\* Internal error exactly when the batch length differs from num_outputs;
\* on failure every output slot stays unset, otherwise slot i holds batch
\* entry i for every i below num_outputs.
C8_Compute ==
  [][computed' # computed =>
       /\ getnext_calls' = getnext_calls + 1
       /\ (compute_status' = UnexpectedBatchError) <=> (Len(batch') # num_outputs')
       /\ compute_status' # UnexpectedBatchError => compute_status' = OkStatus
       /\ DOMAIN outputs' = 0..(num_outputs' - 1)
       /\ \A i \in DOMAIN outputs' :
            outputs'[i] = IF Len(batch') # num_outputs' THEN Unset ELSE batch'[i + 1]
    ]_vars

\* a Compute call that failed with output slots to fill and a batch to give
C8_Witness ==
  /\ getnext_calls > 0
  /\ compute_status = UnexpectedBatchError
  /\ num_outputs > 0 /\ Len(batch) > 0
  /\ \A i \in DOMAIN outputs : outputs[i] = Unset

\* ------------------------------------------------------------------ C9
\* C9: a construction that gets past both argument checks has at least one
\* yielder and its composed stream is an allocated yielder or mixer; an
\* empty file_pattern with weights (zero sources) is rejected.
C9_AtLeastOneYielder ==
  /\ ReachedComposition =>
       /\ Len(yielders) >= 1
       /\ yielder \in Allocated("yielder") \cup Allocated("mixer")
  /\ ReachedSources /\ input_source_weights # <<>> /\ file_pattern = <<>> =>
       status = WeightCountError

\* a weighted construction that reached the composition
C9_Witness ==
  /\ ReachedComposition
  /\ input_source_weights # <<>>
  /\ Len(yielders) = Len(input_source_weights)
  /\ yielder \in DOMAIN heap

\* ------------------------------------------------------------------ C10
\* C10 as stated, on the path it singles out: after a construction that
\* failed the weight-count check and the destruction that follows, nothing
\* the constructor allocated remains allocated.
C10_NothingLeaksOnCountFailure ==
  pc = "destroyed" /\ status = WeightCountError => DOMAIN heap = {}

====
